---- MODULE Spec2Model ----
(***************************************************************************)
(* Model of the Timeline Segmenter of dj_set_processor                     *)
(* (modules/video_editor/video_editor.py, class VideoEditor) and of its    *)
(* frame selection (modules/thumbnail_generator/thumbnail_generator.py,    *)
(* class ThumbnailGenerator).                                              *)
(*                                                                         *)
(* Times are integers (seconds on a grid); an interval is the record       *)
(* [start_time, end_time], the dict the code passes around.                *)
(***************************************************************************)
EXTENDS Integers, Sequences, FiniteSets

\* ---------------------------------------------------------------- bounds
\* Largest video duration of the edit_video specification; raw times given
\* by a caller range over -1 .. MaxT + 1 (below 0 and beyond the duration).
MaxT == 3
\* Longest remove list a caller passes to edit_video.
MaxSegs == 2
\* Largest configured min_segment_duration.
MaxMin == 2
\* Largest duration and longest remove list of the complement specification.
MaxD == 5
MaxRemove == 3
\* Largest time and longest keep list of the merge_short specification.
MaxK == 3
MaxKeep == 3
\* Longest remove list of the test-video scenario.
MaxScenarioSegs == 2

\* ------------------------------------------------------ program constants
\* test.py: create_test_video(output_path, duration=30)
TestDuration == 30
\* test.py: segment_duration = duration / 5
TestSegments == 5
\* config.py: "min_segment_duration": 5.0
DefaultMinSegmentDuration == 5

VARIABLES
    pc,                    \* position of the caller: "input", "done" around
                           \* edit_video; "remove_input", "complemented" and
                           \* "keep_input", "merged", "remerged" around the
                           \* two helpers called on their own
    min_segment_duration,  \* self.config["min_segment_duration"]
    video_duration,        \* video.duration of the loaded clip
    given,                 \* the remove list as the caller built it
    segments_to_remove,    \* the caller's list object (its dicts are shared)
    sorted_segments,       \* edit_video's local sorted list after validation
    complement_keep,       \* result of _get_segments_to_keep
    segments_to_keep,      \* keep list after _merge_short_segments
    remerged,              \* _merge_short_segments applied a second time
    clips,                 \* subclips extracted for concatenation
    outcome,               \* "none", "path", "ValueError", "FileNotFoundError"
                           \* for edit_video; see the Raised... names below
                           \* for generate_thumbnails
    output_written,        \* write_videofile has been called
    \* ---- ThumbnailGenerator
    extraction_method,     \* self.config["extraction_method"]
    frame_count,           \* CAP_PROP_FRAME_COUNT of the video
    video,                 \* the frames of the video file, frame 0 first
    num_thumbnails,        \* the num_thumbnails argument: <<>> is None
    num_frames,            \* the count handed to _extract_frames
    candidates,            \* the frame indices the strategy loops over
    reads,                 \* the frame indices video.read() was called at
    frames,                \* frame indices of the (frame, timestamp) result
    thumbnail_paths,       \* the list generate_thumbnails returns
    warned,                \* "Unknown extraction method" was logged
    gate_config,           \* min_brightness, min_contrast of the gate alone
    gate_frame,            \* the frame given to the gate alone
    gate_verdict,          \* "none", "accepted", "rejected", "cv2.error"
    key_moment             \* locals of _extract_key_moment_frames called on
                           \* its own: prev_frame is <<>> for None, scored
                           \* is frame_diffs as appended, cut is top_frames
                           \* as first assigned (line 263),
                           \* frame_diffs the list after its sort, top_frames
                           \* the list handed to the quality filter

editVars == <<min_segment_duration, video_duration, given, segments_to_remove,
              sorted_segments, complement_keep, segments_to_keep, remerged,
              clips, output_written>>

thumbVars == <<extraction_method, frame_count, video, num_thumbnails,
               num_frames, candidates, reads, frames, thumbnail_paths, warned,
               gate_config, gate_frame, gate_verdict, key_moment>>

\* Nothing probed yet.
KeyMomentIdle ==
    [prev_frame |-> <<>>, scored |-> <<>>, frame_diffs |-> <<>>,
     cut |-> <<>>, top_frames |-> <<>>]

vars == <<pc, outcome, editVars, thumbVars>>

\* The variables of ThumbnailGenerator while only VideoEditor runs.
ThumbIdle ==
    /\ extraction_method = "none"
    /\ frame_count = 0
    /\ video = <<>>
    /\ num_thumbnails = <<>>
    /\ num_frames = 0
    /\ candidates = <<>>
    /\ reads = <<>>
    /\ frames = <<>>
    /\ thumbnail_paths = <<>>
    /\ warned = FALSE
    /\ gate_config = <<>>
    /\ gate_frame = <<>>
    /\ gate_verdict = "none"
    /\ key_moment = KeyMomentIdle

\* The variables of VideoEditor while only ThumbnailGenerator runs.
EditIdle ==
    /\ min_segment_duration = 0
    /\ video_duration = 0
    /\ given = <<>>
    /\ segments_to_remove = <<>>
    /\ sorted_segments = <<>>
    /\ complement_keep = <<>>
    /\ segments_to_keep = <<>>
    /\ remerged = <<>>
    /\ clips = <<>>
    /\ output_written = FALSE

\* ------------------------------------------------------------- intervals
Seg(s, e) == [start_time |-> s, end_time |-> e]

Duration(seg) == seg.end_time - seg.start_time

Last(seq) == seq[Len(seq)]

\* ------------------------------------------------- sorted(..., key=start)
\* Python's sorted() is stable: an element goes after every element already
\* placed whose key is <= its own.
RECURSIVE InsertByStart(_, _)
InsertByStart(seq, x) ==
    IF seq = <<>> THEN <<x>>
    ELSE IF Head(seq).start_time <= x.start_time
         THEN <<Head(seq)>> \o InsertByStart(Tail(seq), x)
         ELSE <<x>> \o seq

RECURSIVE SortByStart(_)
SortByStart(seq) ==
    IF seq = <<>> THEN <<>>
    ELSE InsertByStart(SortByStart(SubSeq(seq, 1, Len(seq) - 1)), Last(seq))

\* ---------------------------------------------------- _validate_segments
\* Clamps start below at 0 and end above at the duration, in place.  An
\* interval with end <= start only gets a warning: it stays in the list.
ClampSegment(seg, D) ==
    Seg(IF seg.start_time < 0 THEN 0 ELSE seg.start_time,
        IF seg.end_time > D THEN D ELSE seg.end_time)

_validate_segments(segments, D) ==
    [i \in 1..Len(segments) |-> ClampSegment(segments[i], D)]

\* -------------------------------------------------- _get_segments_to_keep
\* A slip that emits the head interval without testing the first start.
KeepHeadAlways(rem) == <<Seg(0, rem[1].start_time)>>

KeepHead(rem) ==
    IF rem[1].start_time > 0
    THEN <<Seg(0, rem[1].start_time)>>
    ELSE <<>>

RECURSIVE KeepGaps(_, _)
KeepGaps(rem, i) ==
    IF i >= Len(rem) THEN <<>>
    ELSE (IF rem[i + 1].start_time > rem[i].end_time
          THEN <<Seg(rem[i].end_time, rem[i + 1].start_time)>>
          ELSE <<>>) \o KeepGaps(rem, i + 1)

\* A slip that reads the first remove interval where the last is meant.
KeepTailFromFirst(rem, D) ==
    IF rem[1].end_time < D
    THEN <<Seg(rem[1].end_time, D)>>
    ELSE <<>>

KeepTail(rem, D) ==
    IF Last(rem).end_time < D
    THEN <<Seg(Last(rem).end_time, D)>>
    ELSE <<>>

\* A slip that returns the still empty accumulator for an empty remove list.
KeepAllNothing(D) == <<>>

KeepAll(D) == <<Seg(0, D)>>

_get_segments_to_keep(rem, D) ==
    IF rem = <<>> THEN KeepAll(D)
    ELSE KeepHead(rem) \o KeepGaps(rem, 1) \o KeepTail(rem, D)

\* -------------------------------------------------- _merge_short_segments
\* A slip that merges when either interval is short.
ShouldMergeEither(last_segment, segment, min_duration) ==
    \/ Duration(segment) < min_duration
    \/ Duration(last_segment) < min_duration

\* A slip that tests the incoming interval only.
ShouldMergeIfShort(last_segment, segment, min_duration) ==
    Duration(segment) < min_duration

ShouldMerge(last_segment, segment, min_duration) ==
    /\ Duration(segment) < min_duration
    /\ Duration(last_segment) < min_duration

\* A slip that iterates over segments instead of segments[1:].
LoopSegmentsAll(segments) == segments

LoopSegments(segments) == Tail(segments)

\* A slip that keeps the incoming interval in place of the union.
MergedSegmentOnly(last_segment, segment) ==
    Seg(segment.start_time, segment.end_time)

\* Lines 323-326: the interval that replaces merged_segments[-1].
MergedSegment(last_segment, segment) ==
    Seg(last_segment.start_time, segment.end_time)

RECURSIVE MergeLoop(_, _, _)
MergeLoop(merged_segments, rest, min_duration) ==
    IF rest = <<>> THEN merged_segments
    ELSE LET segment == Head(rest)
             last_segment == Last(merged_segments)
         IN  IF ShouldMerge(last_segment, segment, min_duration)
             THEN MergeLoop([merged_segments EXCEPT ![Len(merged_segments)] =
                                MergedSegment(last_segment, segment)],
                            Tail(rest), min_duration)
             ELSE MergeLoop(Append(merged_segments, segment),
                            Tail(rest), min_duration)

_merge_short_segments(segments, min_duration) ==
    IF segments = <<>> THEN <<>>
    ELSE IF Len(segments) = 1 THEN segments
    ELSE MergeLoop(<<segments[1]>>, LoopSegments(segments), min_duration)

\* ------------------------------------------------------------ edit_video
\* The loop over segments_to_keep skips intervals of zero or negative length.
ExtractClips(keep) ==
    SelectSeq(keep, LAMBDA seg : ~(seg.end_time <= seg.start_time))

\* A slip that drops the "no clips remain" test.
NoClipsIgnored(cs) == FALSE

NoClips(cs) == cs = <<>>

\* Lines 58-107 and 140-162 of edit_video, for a video file that exists or
\* not and whose clip has duration D.
EditVideoCall(exists, D) ==
    IF ~exists
    THEN /\ outcome' = "FileNotFoundError"
         /\ UNCHANGED <<video_duration, segments_to_remove, sorted_segments,
                        complement_keep, segments_to_keep, clips,
                        output_written>>
    ELSE LET validated == _validate_segments(SortByStart(segments_to_remove), D)
             keep      == _get_segments_to_keep(validated, D)
             merged    == IF min_segment_duration > 0
                          THEN _merge_short_segments(keep, min_segment_duration)
                          ELSE keep
             extracted == ExtractClips(merged)
         IN  /\ video_duration' = D
             \* sorted() copies the list, not the dicts: validation rewrites
             \* the caller's dicts too.
             /\ segments_to_remove' = _validate_segments(segments_to_remove, D)
             /\ sorted_segments' = validated
             /\ complement_keep' = keep
             /\ segments_to_keep' = merged
             /\ clips' = extracted
             /\ outcome' = IF NoClips(extracted) THEN "ValueError" ELSE "path"
             /\ output_written' = ~NoClips(extracted)

\* ------------------------------------------ specification Spec: edit_video
RawTimes == (0 - 1) .. (MaxT + 1)

Durations == {MaxT - 1, MaxT}

\* Merging disabled (0) or the threshold MaxMin.
MinDurations == {0, MaxMin}

Init ==
    /\ pc = "input"
    /\ min_segment_duration \in MinDurations
    /\ video_duration = 0
    /\ given = <<>>
    /\ segments_to_remove = <<>>
    /\ sorted_segments = <<>>
    /\ complement_keep = <<>>
    /\ segments_to_keep = <<>>
    /\ remerged = <<>>
    /\ clips = <<>>
    /\ outcome = "none"
    /\ output_written = FALSE
    /\ ThumbIdle

\* The caller appends one dict to the list it will pass to edit_video.
AddSegment ==
    /\ pc = "input"
    /\ Len(segments_to_remove) < MaxSegs
    /\ \E s \in RawTimes, e \in RawTimes :
          /\ segments_to_remove' = Append(segments_to_remove, Seg(s, e))
          /\ given' = Append(given, Seg(s, e))
    /\ UNCHANGED <<pc, min_segment_duration, video_duration, sorted_segments,
                   complement_keep, segments_to_keep, remerged, clips,
                   outcome, output_written>>
    /\ UNCHANGED thumbVars

EditVideo ==
    /\ pc = "input"
    /\ pc' = "done"
    /\ \E exists \in BOOLEAN, D \in Durations : EditVideoCall(exists, D)
    /\ UNCHANGED <<min_segment_duration, given, remerged>>
    /\ UNCHANGED thumbVars

Next == AddSegment \/ EditVideo

Spec == Init /\ [][Next]_vars

\* ------------------------- specification SpecComplement: complement alone
\* Remove lists sorted by start, of intervals with end > start inside
\* [0, D]; they may overlap or nest.
InitComplement ==
    /\ pc = "remove_input"
    /\ min_segment_duration = 0
    /\ video_duration \in 1 .. MaxD
    /\ given = <<>>
    /\ segments_to_remove = <<>>
    /\ sorted_segments = <<>>
    /\ complement_keep = <<>>
    /\ segments_to_keep = <<>>
    /\ remerged = <<>>
    /\ clips = <<>>
    /\ outcome = "none"
    /\ output_written = FALSE
    /\ ThumbIdle

AddRemove ==
    /\ pc = "remove_input"
    /\ Len(sorted_segments) < MaxRemove
    /\ \E s \in 0 .. video_duration, e \in 0 .. video_duration :
          /\ s < e
          /\ IF sorted_segments = <<>> THEN TRUE
             ELSE Last(sorted_segments).start_time <= s
          /\ sorted_segments' = Append(sorted_segments, Seg(s, e))
    /\ UNCHANGED <<pc, min_segment_duration, video_duration, given,
                   segments_to_remove, complement_keep, segments_to_keep,
                   remerged, clips, outcome, output_written>>
    /\ UNCHANGED thumbVars

Complement ==
    /\ pc = "remove_input"
    /\ pc' = "complemented"
    /\ complement_keep' = _get_segments_to_keep(sorted_segments, video_duration)
    /\ UNCHANGED <<min_segment_duration, video_duration, given,
                   segments_to_remove, sorted_segments, segments_to_keep,
                   remerged, clips, outcome, output_written>>
    /\ UNCHANGED thumbVars

NextComplement == AddRemove \/ Complement

SpecComplement == InitComplement /\ [][NextComplement]_vars

\* --------------------------- specification SpecMerge: merge_short alone
\* Keep lists of intervals with end > start, in any order.
InitMerge ==
    /\ pc = "keep_input"
    /\ min_segment_duration \in 0 .. (MaxK + 1)
    /\ video_duration = 0
    /\ given = <<>>
    /\ segments_to_remove = <<>>
    /\ sorted_segments = <<>>
    /\ complement_keep = <<>>
    /\ segments_to_keep = <<>>
    /\ remerged = <<>>
    /\ clips = <<>>
    /\ outcome = "none"
    /\ output_written = FALSE
    /\ ThumbIdle

AddKeep ==
    /\ pc = "keep_input"
    /\ Len(complement_keep) < MaxKeep
    /\ \E s \in 0 .. MaxK, e \in 0 .. MaxK :
          /\ s < e
          /\ complement_keep' = Append(complement_keep, Seg(s, e))
    /\ UNCHANGED <<pc, min_segment_duration, video_duration, given,
                   segments_to_remove, sorted_segments, segments_to_keep,
                   remerged, clips, outcome, output_written>>
    /\ UNCHANGED thumbVars

MergeShort ==
    /\ pc = "keep_input"
    /\ pc' = "merged"
    /\ segments_to_keep' =
          _merge_short_segments(complement_keep, min_segment_duration)
    /\ UNCHANGED <<min_segment_duration, video_duration, given,
                   segments_to_remove, sorted_segments, complement_keep,
                   remerged, clips, outcome, output_written>>
    /\ UNCHANGED thumbVars

MergeAgain ==
    /\ pc = "merged"
    /\ pc' = "remerged"
    /\ remerged' = _merge_short_segments(segments_to_keep, min_segment_duration)
    /\ UNCHANGED <<min_segment_duration, video_duration, given,
                   segments_to_remove, sorted_segments, complement_keep,
                   segments_to_keep, clips, outcome, output_written>>
    /\ UNCHANGED thumbVars

NextMerge == AddKeep \/ MergeShort \/ MergeAgain

SpecMerge == InitMerge /\ [][NextMerge]_vars

\* ------------- specification SpecScenario: edit_video on the test video
\* test.py cuts its 30 s video into 5 segments; remove intervals start and
\* end on those boundaries.
ScenarioTimes == {i * (TestDuration \div TestSegments) : i \in 0 .. TestSegments}

ScenarioMinDurations == {k * DefaultMinSegmentDuration : k \in 0 .. 2}

InitScenario ==
    /\ pc = "input"
    /\ min_segment_duration \in ScenarioMinDurations
    /\ video_duration = 0
    /\ given = <<>>
    /\ segments_to_remove = <<>>
    /\ sorted_segments = <<>>
    /\ complement_keep = <<>>
    /\ segments_to_keep = <<>>
    /\ remerged = <<>>
    /\ clips = <<>>
    /\ outcome = "none"
    /\ output_written = FALSE
    /\ ThumbIdle

AddScenarioSegment ==
    /\ pc = "input"
    /\ Len(segments_to_remove) < MaxScenarioSegs
    /\ \E s \in ScenarioTimes, e \in ScenarioTimes :
          /\ segments_to_remove' = Append(segments_to_remove, Seg(s, e))
          /\ given' = Append(given, Seg(s, e))
    /\ UNCHANGED <<pc, min_segment_duration, video_duration, sorted_segments,
                   complement_keep, segments_to_keep, remerged, clips,
                   outcome, output_written>>
    /\ UNCHANGED thumbVars

EditScenarioVideo ==
    /\ pc = "input"
    /\ pc' = "done"
    /\ \E exists \in BOOLEAN : EditVideoCall(exists, TestDuration)
    /\ UNCHANGED <<min_segment_duration, given, remerged>>
    /\ UNCHANGED thumbVars

NextScenario == AddScenarioSegment \/ EditScenarioVideo

SpecScenario == InitScenario /\ [][NextScenario]_vars

\* ======================================================= ThumbnailGenerator
\* config.py: "num_thumbnails": 10
DefaultNumThumbnails == 10
\* config.py: "min_brightness": 30
DefaultMinBrightness == 30
\* config.py: "min_contrast": 20
DefaultMinContrast == 20
\* thumbnail_generator.py: if sharpness < 100
SharpnessThreshold == 100

\* A frame as video.read() hands it out: kind "unreadable" (success is
\* False), "empty" (a zero-area array) or "image" with the statistics of its
\* grey image: mean, standard deviation and variance of the Laplacian.
Frame(k, b, c, s) ==
    [kind |-> k, brightness |-> b, contrast |-> c, sharpness |-> s]

UnreadableFrame == Frame("unreadable", 0, 0, 0)

EmptyFrame == Frame("empty", 0, 0, 0)

Max(a, b) == IF a >= b THEN a ELSE b

Min(a, b) == IF a <= b THEN a ELSE b

Abs(a) == IF a >= 0 THEN a ELSE 0 - a

\* ------------------------------------------------ _is_good_quality_frame
\* cv2.cvtColor raises cv2.error on an empty array; nothing catches it.
GateRaises(frame) == frame.kind = "empty"

\* A slip that turns the brightness test around.
IsGoodQualityFrameDarkOnly(frame, min_brightness, min_contrast) ==
    IF frame.brightness >= min_brightness THEN FALSE
    ELSE IF frame.contrast < min_contrast THEN FALSE
    ELSE IF frame.sharpness < SharpnessThreshold THEN FALSE
    ELSE TRUE

_is_good_quality_frame(frame, min_brightness, min_contrast) ==
    IF frame.brightness < min_brightness THEN FALSE
    ELSE IF frame.contrast < min_contrast THEN FALSE
    ELSE IF frame.sharpness < SharpnessThreshold THEN FALSE
    ELSE TRUE

\* ------------------------------------------------------- the usable range
\* int(frame_count * 0.05) and int(frame_count * 0.95): the float products
\* truncate to these quotients for every frame_count below 200000.
StartFrame(fc) == (fc * 5) \div 100

EndFrame(fc) == (fc * 95) \div 100

\* Lines 168-177 and 301-310: the uniform and the random strategy fall back
\* to all frames when the trimmed range is empty.
UsableRange(fc) ==
    IF EndFrame(fc) - StartFrame(fc) <= 0
    THEN [start |-> 0, end |-> fc]
    ELSE [start |-> StartFrame(fc), end |-> EndFrame(fc)]

\* Lines 227-229: the key-moment strategy has no such fallback.
KeyMomentRange(fc) == [start |-> StartFrame(fc), end |-> EndFrame(fc)]

\* list(range(a, b))
Range(a, b) == [i \in 1 .. Max(b - a, 0) |-> a + i - 1]

\* list(range(a, b, step)), step >= 1
RangeStep(a, b, step) ==
    [i \in 1 .. (IF b > a THEN (b - a + step - 1) \div step ELSE 0)
        |-> a + (i - 1) * step]

\* ------------------------------------------------ _extract_uniform_frames
\* int(start + i * (usable / n)) in double arithmetic.  The product i * step
\* may fall just short of an integer that i * usable / n is exactly; these
\* <<start, usable, n, i>> are all the cases with frame_count < 65, and,
\* with start 0, all the cases of a list of usable < 40 entries spaced by
\* _extract_key_moment_frames.
FloatShortfall ==
    {<<1, 30, 22, 11>>, <<1, 30, 26, 13>>, <<2, 45, 33, 22>>,
     <<2, 45, 39, 26>>, <<2, 52, 46, 23>>,
     <<0, 30, 22, 11>>, <<0, 30, 26, 13>>}

\* A slip that forgets to add start_frame.
SpacedIndexNoStart(start, usable, n, i) == (i * usable) \div n

SpacedIndex(start, usable, n, i) ==
    start + (i * usable) \div n
          - (IF <<start, usable, n, i>> \in FloatShortfall THEN 1 ELSE 0)

\* A slip that forgets the offset of the usable range.
AllUsableFramesFromZero(start, end) == Range(0, end - start)

AllUsableFrames(start, end) == Range(start, end)

\* Lines 179-186.  num_frames = 0 with a non-empty range divides by zero.
UniformDividesByZero(n, fc) ==
    n = 0 /\ ~(n >= UsableRange(fc).end - UsableRange(fc).start)

UniformIndices(n, fc) ==
    LET r == UsableRange(fc)
        usable == r.end - r.start
    IN  IF n >= usable THEN AllUsableFrames(r.start, r.end)
        ELSE [i \in 1 .. Max(n, 0) |-> SpacedIndex(r.start, usable, n, i - 1)]

\* ----------------------------------------------------- reading one frame
FrameAt(v, idx) == v[idx + 1]

Readable(v, idx) ==
    idx >= 0 /\ idx < Len(v) /\ FrameAt(v, idx).kind # "unreadable"

\* The gate as the strategies call it, with the configured thresholds.
Gate(frame) ==
    _is_good_quality_frame(frame, DefaultMinBrightness, DefaultMinContrast)

\* A slip that ends the loop at a failed read ("break").
AfterFailedReadBreak(rest) == <<>>

\* "if not success: continue": the loop goes on with the other candidates.
AfterFailedRead(rest) == rest

\* The result of a loop over candidates: accepted frame indices, the
\* indices read, and the exception that ended it ("none" if none did).
LoopStart == [frames |-> <<>>, reads |-> <<>>, error |-> "none"]

\* Lines 188-207.
RECURSIVE UniformLoop(_, _, _)
UniformLoop(rest, v, acc) ==
    IF rest = <<>> THEN acc
    ELSE LET idx  == Head(rest)
             acc1 == [acc EXCEPT !.reads = Append(@, idx)]
         IN  IF ~Readable(v, idx)
             THEN UniformLoop(AfterFailedRead(Tail(rest)), v, acc1)
             ELSE IF GateRaises(FrameAt(v, idx))
             THEN [acc1 EXCEPT !.error = "cv2.error"]
             ELSE IF Gate(FrameAt(v, idx))
             THEN UniformLoop(Tail(rest), v,
                              [acc1 EXCEPT !.frames = Append(@, idx)])
             ELSE UniformLoop(Tail(rest), v, acc1)

_extract_uniform_frames(v, n, fc) ==
    IF UniformDividesByZero(n, fc)
    THEN [LoopStart EXCEPT !.error = "ZeroDivisionError"]
    ELSE UniformLoop(UniformIndices(n, fc), v, LoopStart)

\* --------------------------------------------- _extract_key_moment_frames
\* max(1, int(frame_count / 500))
SampleRate(fc) == Max(1, fc \div 500)

KeyMomentProbes(fc) ==
    RangeStep(KeyMomentRange(fc).start, KeyMomentRange(fc).end, SampleRate(fc))

\* np.sum(cv2.absdiff(gray, prev_frame)) / (height * width), for frames
\* that differ by one shift of all their pixels: the shift of the mean.
\* A slip that leaves out the absolute value.
DiffScoreSigned(frame, prev_frame) == frame.brightness - prev_frame.brightness

DiffScore(frame, prev_frame) == Abs(frame.brightness - prev_frame.brightness)

\* Lines 237-257.  prev is <<>> for None and <<frame>> afterwards; diffs holds
\* [idx, score] for every probe scored.
\* A slip that forgets the previous frame when a read fails.
PrevAfterFailedReadNone(prev) == <<>>

\* Lines 245-246: "continue" leaves prev_frame as it is.
PrevAfterFailedRead(prev) == prev

RECURSIVE ProbeLoop(_, _, _, _)
ProbeLoop(rest, v, prev, acc) ==
    IF rest = <<>> THEN acc
    ELSE LET idx  == Head(rest)
             acc1 == [acc EXCEPT !.reads = Append(@, idx)]
         IN  IF ~Readable(v, idx)
             THEN ProbeLoop(AfterFailedRead(Tail(rest)), v,
                            PrevAfterFailedRead(prev), acc1)
             ELSE IF GateRaises(FrameAt(v, idx))
             THEN [acc1 EXCEPT !.error = "cv2.error"]
             ELSE ProbeLoop(Tail(rest), v, <<FrameAt(v, idx)>>,
                    IF prev = <<>> THEN acc1
                    ELSE [acc1 EXCEPT !.frames = Append(@,
                            [idx |-> idx,
                             score |-> DiffScore(FrameAt(v, idx), prev[1])])])

\* Does seq[j] come before seq[k] after list.sort(key=score, reverse=True)?
\* The sort is stable: equal scores keep their order.
\* A slip that sorts ascending and reverses, which turns ties around.
BeforeByScoreReversed(seq, j, k) ==
    \/ seq[j].score > seq[k].score
    \/ seq[j].score = seq[k].score /\ j > k

BeforeByScore(seq, j, k) ==
    \/ seq[j].score > seq[k].score
    \/ seq[j].score = seq[k].score /\ j < k

\* frame_diffs.sort(key=lambda x: x[1], reverse=True): every entry goes to
\* the place after the entries that come before it.
SortByScore(seq) ==
    LET place == SubSeq([k \in 1 .. Len(seq) |->
                           Cardinality({j \in 1 .. Len(seq) :
                                           BeforeByScore(seq, j, k)}) + 1],
                        1, Len(seq))
    IN  [p \in 1 .. Len(seq) |->
            seq[CHOOSE k \in 1 .. Len(seq) : place[k] = p]]

\* seq[:k], with Python's meaning of a negative k.
Prefix(seq, k) ==
    SubSeq(seq, 1, IF k >= 0 THEN Min(k, Len(seq)) ELSE Max(Len(seq) + k, 0))

\* top_frames.sort(key=idx)
RECURSIVE InsertByIndex(_, _)
InsertByIndex(seq, x) ==
    IF seq = <<>> THEN <<x>>
    ELSE IF Head(seq).idx <= x.idx
         THEN <<Head(seq)>> \o InsertByIndex(Tail(seq), x)
         ELSE <<x>> \o seq

RECURSIVE SortByIndexRec(_)
SortByIndexRec(seq) ==
    IF seq = <<>> THEN <<>>
    ELSE InsertByIndex(SortByIndexRec(SubSeq(seq, 1, Len(seq) - 1)), Last(seq))

\* A slip that leaves the top frames in score order.
SortByIndexSkipped(seq) == seq

SortByIndex(seq) == SortByIndexRec(seq)

\* A slip that takes the first n entries instead of spacing them.
SelectSpacedFirst(top_frames, n) ==
    IF Len(top_frames) > n THEN SubSeq(top_frames, 1, Max(n, 0))
    ELSE top_frames

\* Lines 268-272: int(i * step) is int(0 + i * step), in float arithmetic
\* again; the cases of FloatShortfall with start 0 are all those of a list
\* shorter than 40.
SelectSpaced(top_frames, n) ==
    IF Len(top_frames) > n
    THEN [i \in 1 .. Max(n, 0) |->
            top_frames[SpacedIndex(0, Len(top_frames), n, i - 1) + 1]]
    ELSE top_frames

\* Lines 259-263: the sort by score and the cut.
KeyMomentCut(frame_diffs, n) ==
    Prefix(SortByScore(frame_diffs), Min(n * 2, Len(frame_diffs)))

\* Lines 259-272.
KeyMomentTop(frame_diffs, n) ==
    SelectSpaced(SortByIndex(KeyMomentCut(frame_diffs, n)), n)

\* Lines 274-283: the frames were decoded by the probe loop already.
KeyMomentAccepted(top_frames, v) ==
    LET good == SelectSeq(top_frames, LAMBDA d : Gate(FrameAt(v, d.idx)))
    IN  [i \in 1 .. Len(good) |-> good[i].idx]

\* Lines 237-283 for the probe list given.
KeyMomentRun(probes, v, n) ==
    LET probed == ProbeLoop(probes, v, <<>>, LoopStart)
    IN  IF probed.error # "none" THEN [probed EXCEPT !.frames = <<>>]
        ELSE [probed EXCEPT
                !.frames = KeyMomentAccepted(KeyMomentTop(probed.frames, n), v)]

_extract_key_moment_frames(v, n, fc) == KeyMomentRun(KeyMomentProbes(fc), v, n)

\* ------------------------------------------------- _extract_random_frames
\* min(num_frames * 3, usable_frame_count)
SampleSize(n, fc) == Min(n * 3, UsableRange(fc).end - UsableRange(fc).start)

\* What random.sample(range(start, end), k) can return: k distinct indices
\* in any order.  A negative k makes it raise ValueError.
Samples(fc, k) ==
    LET r == UsableRange(fc)
    IN  {s \in [1 .. k -> r.start .. (r.end - 1)] :
            \A i \in 1 .. k : \A j \in 1 .. k : i # j => s[i] # s[j]}

\* Lines 318-341.
\* A slip that leaves out the early stop.
EnoughFramesNever(fs, n) == FALSE

\* Lines 338-339: if len(frames) >= num_frames: break
EnoughFrames(fs, n) == Len(fs) >= n

RECURSIVE RandomLoop(_, _, _, _)
RandomLoop(rest, v, n, acc) ==
    IF rest = <<>> THEN acc
    ELSE LET idx  == Head(rest)
             acc1 == [acc EXCEPT !.reads = Append(@, idx)]
         IN  IF ~Readable(v, idx)
             THEN RandomLoop(AfterFailedRead(Tail(rest)), v, n, acc1)
             ELSE IF GateRaises(FrameAt(v, idx))
             THEN [acc1 EXCEPT !.error = "cv2.error"]
             ELSE IF Gate(FrameAt(v, idx))
             THEN LET acc2 == [acc1 EXCEPT !.frames = Append(@, idx)]
                  IN  IF EnoughFrames(acc2.frames, n) THEN acc2
                      ELSE RandomLoop(Tail(rest), v, n, acc2)
             ELSE RandomLoop(Tail(rest), v, n, acc1)

_extract_random_frames(v, n, drawn) == RandomLoop(drawn, v, n, LoopStart)

\* -------------------------------------------------------- _extract_frames
KnownMethods == {"uniform", "key_moments", "random"}

\* The list the strategy loops over.
Candidates(method, n, fc, drawn) ==
    IF method = "key_moments" THEN KeyMomentProbes(fc)
    ELSE IF method = "random" THEN drawn
    ELSE IF UniformDividesByZero(n, fc) THEN <<>>
    ELSE UniformIndices(n, fc)

\* A slip that rejects an unknown method instead of falling back.
UnknownMethodRaises(v, n, fc) ==
    [LoopStart EXCEPT !.error = "ValueError: unknown method"]

\* Lines 143-145.
UnknownMethod(v, n, fc) == _extract_uniform_frames(v, n, fc)

\* Lines 134-150; drawn is what random.sample returned (unused otherwise).
_extract_frames(method, v, n, fc, drawn) ==
    IF method = "uniform" THEN _extract_uniform_frames(v, n, fc)
    ELSE IF method = "key_moments" THEN _extract_key_moment_frames(v, n, fc)
    ELSE IF method = "random"
    THEN IF SampleSize(n, fc) < 0
         THEN [LoopStart EXCEPT !.error = "ValueError: sample is negative"]
         ELSE _extract_random_frames(v, n, drawn)
    ELSE UnknownMethod(v, n, fc)

\* ---------------------------------------------------- generate_thumbnails
\* num_thumbnails or self.config["num_thumbnails"]: None and 0 are falsy.
EffectiveCount(arg) ==
    IF arg = <<>> THEN DefaultNumThumbnails
    ELSE IF arg[1] = 0 THEN DefaultNumThumbnails
    ELSE arg[1]

\* A slip that drops the "if not frames" test.
NoFramesIgnored(fs) == FALSE

NoFrames(fs) == fs = <<>>

\* Lines 60-108 of generate_thumbnails and 121-150 of _extract_frames, for
\* a video file that exists and opens.
GenerateCall(arg, drawn) ==
    LET n   == EffectiveCount(arg)
        got == _extract_frames(extraction_method, video, n, frame_count, drawn)
    IN  /\ num_thumbnails' = arg
        /\ num_frames' = n
        /\ candidates' = Candidates(extraction_method, n, frame_count, drawn)
        /\ reads' = got.reads
        /\ warned' = (extraction_method \notin KnownMethods)
        /\ frames' = IF got.error = "none" THEN got.frames ELSE <<>>
        /\ IF got.error # "none"
           THEN outcome' = got.error /\ thumbnail_paths' = <<>>
           ELSE IF NoFrames(got.frames)
           THEN /\ outcome' = "ValueError: no suitable frames"
                /\ thumbnail_paths' = <<>>
           ELSE /\ outcome' = "returned"
                /\ thumbnail_paths' = [i \in 1 .. Len(got.frames) |-> i]

\* --------------------- specification SpecSelect: generate_thumbnails
\* Longest video, in frames, and largest num_thumbnails a caller asks for.
MaxVideoFrames == 4
MaxNum == 2

DarkFrame == Frame("image", 10, 40, 200)

MidFrame == Frame("image", 90, 40, 200)

BrightFrame == Frame("image", 170, 40, 200)

FrameKinds == {UnreadableFrame, EmptyFrame, DarkFrame, MidFrame, BrightFrame}

Methods == KnownMethods \cup {"fastest"}

NumArgs == {<<>>} \cup {<<n>> : n \in (0 - 1) .. MaxNum}

Draws(method, n, fc) ==
    IF method = "random" /\ SampleSize(n, fc) >= 0
    THEN Samples(fc, SampleSize(n, fc))
    ELSE {<<>>}

InitSelect ==
    /\ pc = "request"
    /\ outcome = "none"
    /\ EditIdle
    /\ extraction_method \in Methods
    /\ frame_count = 0
    /\ video = <<>>
    /\ num_thumbnails = <<>>
    /\ num_frames = 0
    /\ candidates = <<>>
    /\ reads = <<>>
    /\ frames = <<>>
    /\ thumbnail_paths = <<>>
    /\ warned = FALSE
    /\ gate_config = <<>>
    /\ gate_frame = <<>>
    /\ gate_verdict = "none"
    /\ key_moment = KeyMomentIdle

\* The video file gets one more frame.
AddFrame ==
    /\ pc = "request"
    /\ Len(video) < MaxVideoFrames
    /\ \E f \in FrameKinds : video' = Append(video, f)
    /\ frame_count' = frame_count + 1
    /\ UNCHANGED <<pc, outcome, editVars, extraction_method, num_thumbnails,
                   num_frames, candidates, reads, frames, thumbnail_paths,
                   warned, gate_config, gate_frame, gate_verdict,
                   key_moment>>

GenerateThumbnails ==
    /\ pc = "request"
    /\ pc' = "selected"
    /\ \/ /\ outcome' = "FileNotFoundError"
          /\ UNCHANGED <<num_thumbnails, num_frames, candidates, reads,
                         frames, thumbnail_paths, warned>>
       \/ /\ outcome' = "ValueError: could not open"
          /\ UNCHANGED <<num_thumbnails, num_frames, candidates, reads,
                         frames, thumbnail_paths, warned>>
       \/ \E arg \in NumArgs :
             \E drawn \in Draws(extraction_method, EffectiveCount(arg),
                                frame_count) :
                GenerateCall(arg, drawn)
    /\ UNCHANGED <<editVars, extraction_method, frame_count, video,
                   gate_config, gate_frame, gate_verdict, key_moment>>

NextSelect == AddFrame \/ GenerateThumbnails

SpecSelect == InitSelect /\ [][NextSelect]_vars

\* ------------- specification SpecSampling: the index arithmetic alone
\* Largest frame count of the sampling specification.
MaxFrames == 34

InitSampling ==
    /\ pc = "sample_input"
    /\ outcome = "none"
    /\ EditIdle
    /\ extraction_method = "uniform"
    /\ frame_count \in 0 .. MaxFrames
    /\ video = <<>>
    /\ num_thumbnails = <<>>
    /\ num_frames = 0
    /\ candidates = <<>>
    /\ reads = <<>>
    /\ frames = <<>>
    /\ thumbnail_paths = <<>>
    /\ warned = FALSE
    /\ gate_config = <<>>
    /\ gate_frame = <<>>
    /\ gate_verdict = "none"
    /\ key_moment = KeyMomentIdle

\* Lines 166-186 of _extract_uniform_frames: frame_indices for num_frames n.
ProposeUniform ==
    /\ pc = "sample_input"
    /\ pc' = "sampled"
    /\ \E n \in (0 - 1) .. MaxFrames :
          /\ num_frames' = n
          /\ candidates' = Candidates("uniform", n, frame_count, <<>>)
          /\ outcome' = IF UniformDividesByZero(n, frame_count)
                        THEN "ZeroDivisionError" ELSE "none"
    /\ UNCHANGED <<editVars, extraction_method, frame_count, video,
                   num_thumbnails, reads, frames, thumbnail_paths, warned,
                   gate_config, gate_frame, gate_verdict, key_moment>>

NextSampling == ProposeUniform

SpecSampling == InitSampling /\ [][NextSampling]_vars

\* --------------------- specification SpecGate: the quality gate alone
\* How far below and above a threshold the statistics of a frame range.
GateSlack == 2

Around(threshold) == Max(threshold - GateSlack, 0) .. (threshold + GateSlack)

InitGate ==
    /\ pc = "gate_input"
    /\ outcome = "none"
    /\ EditIdle
    /\ extraction_method = "none"
    /\ frame_count = 0
    /\ video = <<>>
    /\ num_thumbnails = <<>>
    /\ num_frames = 0
    /\ candidates = <<>>
    /\ reads = <<>>
    /\ frames = <<>>
    /\ thumbnail_paths = <<>>
    /\ warned = FALSE
    /\ gate_config \in {[min_brightness |-> b, min_contrast |-> c] :
                          b \in {0, DefaultMinBrightness},
                          c \in {0, DefaultMinContrast}}
    /\ gate_frame = <<>>
    /\ gate_verdict = "none"
    /\ key_moment = KeyMomentIdle

GateFrames ==
    {EmptyFrame} \cup
    {Frame("image", b, c, s) : b \in Around(gate_config.min_brightness),
                               c \in Around(gate_config.min_contrast),
                               s \in Around(SharpnessThreshold)}

\* One call of _is_good_quality_frame.
EvaluateFrame ==
    /\ pc = "gate_input"
    /\ pc' = "gated"
    /\ \E f \in GateFrames :
          /\ gate_frame' = <<f>>
          /\ gate_verdict' =
                IF GateRaises(f) THEN "cv2.error"
                ELSE IF _is_good_quality_frame(f, gate_config.min_brightness,
                                               gate_config.min_contrast)
                THEN "accepted" ELSE "rejected"
    /\ UNCHANGED <<outcome, editVars, extraction_method, frame_count, video,
                   num_thumbnails, num_frames, candidates, reads, frames,
                   thumbnail_paths, warned, gate_config, key_moment>>

NextGate == EvaluateFrame

SpecGate == InitGate /\ [][NextGate]_vars

\* ------- specification SpecKeyMoment: _extract_key_moment_frames alone
\* Longest video built frame by frame, longest test-pattern video, and
\* largest num_frames asked of the key-moment strategy.
MaxProbeVideo == 4
MaxPatternFrames == 34
MaxKeyNum == 22

\* A video of good frames whose brightness cycles mid, bright, dark.
PatternVideo(fc) ==
    [i \in 1 .. fc |->
        IF i % 3 = 1 THEN MidFrame
        ELSE IF i % 3 = 2 THEN BrightFrame ELSE DarkFrame]

\* prev_frame after the probe loop: the last frame that was decoded.
LastDecoded(v, read) ==
    LET ok == SelectSeq(read, LAMBDA idx : Readable(v, idx))
    IN  IF ok = <<>> THEN <<>> ELSE <<FrameAt(v, Last(ok))>>

InitKeyMoment ==
    /\ pc = "probe_input"
    /\ outcome = "none"
    /\ EditIdle
    /\ extraction_method = "key_moments"
    /\ frame_count = 0
    /\ video = <<>>
    /\ num_thumbnails = <<>>
    /\ num_frames = 0
    /\ candidates = <<>>
    /\ reads = <<>>
    /\ frames = <<>>
    /\ thumbnail_paths = <<>>
    /\ warned = FALSE
    /\ gate_config = <<>>
    /\ gate_frame = <<>>
    /\ gate_verdict = "none"
    /\ key_moment = KeyMomentIdle

\* The video file gets one more frame.
AddProbeFrame ==
    /\ pc = "probe_input"
    /\ Len(video) < MaxProbeVideo
    /\ \E f \in FrameKinds : video' = Append(video, f)
    /\ frame_count' = frame_count + 1
    /\ UNCHANGED <<pc, outcome, editVars, extraction_method, num_thumbnails,
                   num_frames, candidates, reads, frames, thumbnail_paths,
                   warned, gate_config, gate_frame, gate_verdict, key_moment>>

\* The video file is a longer test pattern.
LoadPatternVideo ==
    /\ pc = "probe_input"
    /\ video = <<>>
    /\ \E fc \in (MaxProbeVideo + 1) .. MaxPatternFrames :
          /\ video' = PatternVideo(fc)
          /\ frame_count' = fc
    /\ UNCHANGED <<pc, outcome, editVars, extraction_method, num_thumbnails,
                   num_frames, candidates, reads, frames, thumbnail_paths,
                   warned, gate_config, gate_frame, gate_verdict, key_moment>>

\* One call of _extract_key_moment_frames(video, n, frame_count, fps).
ExtractKeyMomentFrames ==
    /\ pc = "probe_input"
    /\ pc' = "extracted"
    /\ \E n \in (0 - 1) .. MaxKeyNum :
          LET probed == ProbeLoop(KeyMomentProbes(frame_count), video, <<>>,
                                  LoopStart)
              run    == _extract_key_moment_frames(video, n, frame_count)
          IN  /\ num_frames' = n
              /\ candidates' = KeyMomentProbes(frame_count)
              /\ reads' = run.reads
              /\ frames' = run.frames
              /\ outcome' = IF run.error = "none" THEN "returned"
                            ELSE run.error
              /\ key_moment' =
                    IF run.error # "none" THEN KeyMomentIdle
                    ELSE [prev_frame  |-> LastDecoded(video, run.reads),
                          scored      |-> probed.frames,
                          frame_diffs |-> SortByScore(probed.frames),
                          cut         |-> KeyMomentCut(probed.frames, n),
                          top_frames  |-> KeyMomentTop(probed.frames, n)]
    /\ UNCHANGED <<editVars, extraction_method, frame_count, video,
                   num_thumbnails, thumbnail_paths, warned, gate_config,
                   gate_frame, gate_verdict>>

NextKeyMoment == AddProbeFrame \/ LoadPatternVideo \/ ExtractKeyMomentFrames

SpecKeyMoment == InitKeyMoment /\ [][NextKeyMoment]_vars

\* -------- specification SpecJump: key moments of a video with one jump
\* The video has JumpFrames frames; its brightness changes once, at frame
\* JumpFrame; the caller asks for up to MaxJumpNum frames.
JumpFrames == 1000
JumpFrame == 150
MaxJumpNum == 2

JumpVideo(before, after) ==
    [i \in 1 .. JumpFrames |-> IF i - 1 < JumpFrame THEN before ELSE after]

InitJump ==
    /\ pc = "jump_input"
    /\ outcome = "none"
    /\ EditIdle
    /\ extraction_method = "key_moments"
    /\ frame_count = JumpFrames
    /\ \E before \in {DarkFrame, MidFrame, BrightFrame} :
          \E after \in {DarkFrame, MidFrame, BrightFrame} \ {before} :
             video = JumpVideo(before, after)
    /\ num_thumbnails = <<>>
    /\ num_frames = 0
    /\ candidates = <<>>
    /\ reads = <<>>
    /\ frames = <<>>
    /\ thumbnail_paths = <<>>
    /\ warned = FALSE
    /\ gate_config = <<>>
    /\ gate_frame = <<>>
    /\ gate_verdict = "none"
    /\ key_moment = KeyMomentIdle

\* Lines 223-235: the call, up to the probe loop.
StartProbing ==
    /\ pc = "jump_input"
    /\ pc' = "probing"
    /\ \E n \in 1 .. MaxJumpNum : num_frames' = n
    /\ candidates' = KeyMomentProbes(frame_count)
    /\ UNCHANGED <<outcome, editVars, extraction_method, frame_count, video,
                   num_thumbnails, reads, frames, thumbnail_paths, warned,
                   gate_config, gate_frame, gate_verdict, key_moment>>

\* Lines 238-257: one iteration of the probe loop.
ProbeStep ==
    /\ pc = "probing"
    /\ Len(reads) < Len(candidates)
    /\ LET idx == candidates[Len(reads) + 1]
           acc == ProbeLoop(<<idx>>, video, key_moment.prev_frame,
                            [frames |-> key_moment.scored, reads |-> reads,
                             error |-> "none"])
       IN  /\ reads' = acc.reads
           /\ key_moment' =
                 [key_moment EXCEPT
                    !.scored = acc.frames,
                    !.prev_frame = IF Readable(video, idx) /\ acc.error = "none"
                                   THEN <<FrameAt(video, idx)>>
                                   ELSE PrevAfterFailedRead(@)]
           /\ outcome' = acc.error
           /\ pc' = IF acc.error = "none" THEN "probing" ELSE "extracted"
    /\ UNCHANGED <<editVars, extraction_method, frame_count, video,
                   num_thumbnails, num_frames, candidates, frames,
                   thumbnail_paths, warned, gate_config, gate_frame,
                   gate_verdict>>

\* Lines 259-283: ranking, cut, spacing and quality filter.
RankProbes ==
    /\ pc = "probing"
    /\ Len(reads) = Len(candidates)
    /\ pc' = "extracted"
    /\ outcome' = "returned"
    /\ LET top == KeyMomentTop(key_moment.scored, num_frames)
       IN  /\ key_moment' =
                 [key_moment EXCEPT
                    !.frame_diffs = SortByScore(key_moment.scored),
                    !.cut = KeyMomentCut(key_moment.scored, num_frames),
                    !.top_frames = top]
           /\ frames' = KeyMomentAccepted(top, video)
    /\ UNCHANGED <<editVars, extraction_method, frame_count, video,
                   num_thumbnails, num_frames, candidates, reads,
                   thumbnail_paths, warned, gate_config, gate_frame,
                   gate_verdict>>

NextJump == StartProbing \/ ProbeStep \/ RankProbes

SpecJump == InitJump /\ [][NextJump]_vars

\* ----------- specification SpecProbes: the probe points of key moments
\* Largest frame count of the probe specification.
MaxProbeFrames == 600

\* "Sample at most 500 frames", the comment of line 232.
MaxProbes == 500

InitProbes ==
    /\ pc = "probe_range_input"
    /\ outcome = "none"
    /\ EditIdle
    /\ extraction_method = "key_moments"
    /\ frame_count \in 0 .. MaxProbeFrames
    /\ video = <<>>
    /\ num_thumbnails = <<>>
    /\ num_frames = 0
    /\ candidates = <<>>
    /\ reads = <<>>
    /\ frames = <<>>
    /\ thumbnail_paths = <<>>
    /\ warned = FALSE
    /\ gate_config = <<>>
    /\ gate_frame = <<>>
    /\ gate_verdict = "none"
    /\ key_moment = KeyMomentIdle

\* Lines 227-238 of _extract_key_moment_frames: the indices of the loop.
ProposeProbes ==
    /\ pc = "probe_range_input"
    /\ pc' = "probes_proposed"
    /\ candidates' = KeyMomentProbes(frame_count)
    /\ UNCHANGED <<outcome, editVars, extraction_method, frame_count, video,
                   num_thumbnails, num_frames, reads, frames,
                   thumbnail_paths, warned, gate_config, gate_frame,
                   gate_verdict, key_moment>>

NextProbes == ProposeProbes

SpecProbes == InitProbes /\ [][NextProbes]_vars

\* ================================================================ claims
\* The unit cell [t, t + 1) lies in the half-open interval seg.
Covers(seg, t) == seg.start_time <= t /\ t < seg.end_time

CoverCount(segs, t) == Cardinality({i \in DOMAIN segs : Covers(segs[i], t)})

\* Two intervals of positive length share a point strictly inside both.
Overlaps(a, b) ==
    /\ a.start_time < a.end_time
    /\ b.start_time < b.end_time
    /\ a.start_time < b.end_time
    /\ b.start_time < a.end_time

\* Ordered by start, each interval ending before the next one starts.
NonOverlapping(segs) ==
    \A i \in DOMAIN segs : \A j \in DOMAIN segs :
        i < j => segs[i].end_time <= segs[j].start_time

Within(seg, D) ==
    0 <= seg.start_time /\ seg.start_time < seg.end_time /\ seg.end_time <= D

\* The call got past the existence test and loaded the clip.
Edited == pc = "done" /\ outcome # "FileNotFoundError"

\* C1: for a non-empty remove list inside [0, D], sorted by start and
\* pairwise non-overlapping, the keep intervals of _get_segments_to_keep and
\* the remove intervals tile [0, D): every keep interval lies inside [0, D]
\* and every point of [0, D) is in exactly one keep or remove interval.
C1_ComplementTiles ==
    (/\ pc = "complemented"
     /\ sorted_segments # <<>>
     /\ NonOverlapping(sorted_segments))
    => /\ \A i \in DOMAIN complement_keep :
            Within(complement_keep[i], video_duration)
       /\ \A t \in 0 .. (video_duration - 1) :
            CoverCount(complement_keep, t) + CoverCount(sorted_segments, t) = 1

C1_Witness ==
    /\ pc = "complemented"
    /\ Len(sorted_segments) = 2
    /\ NonOverlapping(sorted_segments)
    /\ Len(complement_keep) = 3

\* C2: after complement and merge_short as edit_video runs them, for a
\* remove list of non-overlapping intervals inside [0, D], no keep interval
\* contains a point strictly inside a remove interval.
C2_NoRemovedContentKept ==
    (/\ Edited
     /\ \A i \in DOMAIN given : Within(given[i], video_duration)
     /\ NonOverlapping(sorted_segments))
    => \A i \in DOMAIN segments_to_keep : \A j \in DOMAIN sorted_segments :
          ~Overlaps(segments_to_keep[i], sorted_segments[j])

\* C3: _get_segments_to_keep with an empty remove list returns exactly the
\* single keep interval [0, D).
C3_EmptyRemoveKeepsAll ==
    (pc = "complemented" /\ sorted_segments = <<>>)
    => complement_keep = <<Seg(0, video_duration)>>

C3_Witness ==
    /\ pc = "complemented"
    /\ sorted_segments = <<>>
    /\ video_duration > 1
    /\ Len(complement_keep) = 1

\* C4: _merge_short_segments is idempotent: applied to its own result, with
\* the same min_duration, it returns that result.
C4_MergeIdempotent ==
    pc = "remerged" => remerged = segments_to_keep

C4_Witness ==
    /\ pc = "remerged"
    /\ Len(segments_to_keep) < Len(complement_keep)
    /\ Len(segments_to_keep) >= 2

\* C5: every interval of the keep list that _merge_short_segments returns in
\* edit_video (after sort, validation and complement) has end > start.
C5_MergedIntervalsPositive ==
    Edited => \A i \in DOMAIN segments_to_keep :
                 segments_to_keep[i].end_time > segments_to_keep[i].start_time

\* C6: for the 30 s test video and remove = [{6,12},{18,24}], complement
\* returns [{0,6},{12,18},{24,30}], and merge_short with
\* min_segment_duration = 10 turns that into [{0,18},{24,30}].
C6_TestVideoScenario ==
    (Edited /\ given = <<Seg(6, 12), Seg(18, 24)>>)
    => /\ complement_keep = <<Seg(0, 6), Seg(12, 18), Seg(24, 30)>>
       /\ min_segment_duration = 10
            => segments_to_keep = <<Seg(0, 18), Seg(24, 30)>>

C6_Witness ==
    /\ Edited
    /\ given = <<Seg(6, 12), Seg(18, 24)>>
    /\ min_segment_duration = 10
    /\ Len(segments_to_keep) = 2
    /\ outcome = "path"

\* C7: for any remove list given to edit_video, the keep list after sort,
\* validation, complement and merge_short is ordered by start, pairwise
\* non-overlapping, and every keep interval lies within [0, duration].
C7_KeepOrderedDisjointInBounds ==
    Edited
    => /\ NonOverlapping(segments_to_keep)
       /\ \A i \in DOMAIN segments_to_keep :
            /\ 0 <= segments_to_keep[i].start_time
            /\ segments_to_keep[i].end_time <= video_duration
       /\ \A i \in DOMAIN segments_to_keep : \A j \in DOMAIN segments_to_keep :
            i < j => segments_to_keep[i].start_time
                        <= segments_to_keep[j].start_time

\* The time cells a list of intervals covers.
CoveredCells(segs) ==
    {t \in (0 - 1) .. (MaxT + 1) : \E i \in DOMAIN segs : Covers(segs[i], t)}

\* The validated remove list without the intervals left with end <= start.
WithoutDegenerate(segs) ==
    SelectSeq(segs, LAMBDA seg : seg.end_time > seg.start_time)

\* C8: a remove interval left with end <= start after clamping is dropped
\* before complementing: the keep set is the keep set computed from the
\* remaining remove intervals (compared here by the time they cover).
C8_DegenerateRemoveDropped ==
    Edited
    => CoveredCells(complement_keep)
          = CoveredCells(_get_segments_to_keep(
                WithoutDegenerate(sorted_segments), video_duration))

\* C9: for every remove list sorted by start, whose intervals may overlap or
\* nest, every keep interval _get_segments_to_keep emits is disjoint from
\* every remove interval.
C9_KeepDisjointFromOverlappingRemoves ==
    pc = "complemented"
    => \A i \in DOMAIN complement_keep : \A j \in DOMAIN sorted_segments :
          ~Overlaps(complement_keep[i], sorted_segments[j])

\* C10: when the keep list after complement and merge_short has no interval
\* of positive duration, edit_video raises ValueError ("No segments remain
\* after editing") and writes no output instead of returning a path.
C10_EmptyTimelineRaises ==
    (/\ Edited
     /\ \A i \in DOMAIN segments_to_keep :
           ~(segments_to_keep[i].end_time > segments_to_keep[i].start_time))
    => outcome = "ValueError" /\ ~output_written

C10_Witness ==
    /\ Edited
    /\ Len(given) = 1
    /\ segments_to_keep = <<>>
    /\ outcome = "ValueError"
    /\ ~output_written


\* ------------------------------------------------ thumbnail claim helpers
\* generate_thumbnails got past opening the video.
Selected ==
    /\ pc = "selected"
    /\ outcome \notin {"FileNotFoundError", "ValueError: could not open"}

\* The range the strategies are said to sample: [5%, 95%) of the frames,
\* or every frame when that range is empty.
ClaimedRange(fc) ==
    IF EndFrame(fc) - StartFrame(fc) <= 0
    THEN 0 .. (fc - 1)
    ELSE StartFrame(fc) .. (EndFrame(fc) - 1)

NonDecreasing(seq) ==
    \A i \in 1 .. Len(seq) : \A j \in 1 .. Len(seq) :
        i < j => seq[i] <= seq[j]

\* seq keeps the order of the distinct elements of order.
InOrderOf(seq, order) ==
    \A i \in 1 .. Len(seq) : \A j \in 1 .. Len(seq) :
        i < j =>
            \E a \in 1 .. Len(order) : \E b \in 1 .. Len(order) :
                a < b /\ order[a] = seq[i] /\ order[b] = seq[j]

\* What generate_thumbnails makes of an extraction result.
OutcomeOf(run) ==
    IF run.error # "none" THEN run.error
    ELSE IF run.frames = <<>> THEN "ValueError: no suitable frames"
    ELSE "returned"

ReadableOnly(indices) == SelectSeq(indices, LAMBDA idx : Readable(video, idx))

\* The strategy's loop over the candidates that decode, and nothing else.
RunWithoutFailedReads ==
    LET ok == ReadableOnly(candidates)
    IN  IF extraction_method = "key_moments"
        THEN KeyMomentRun(ok, video, num_frames)
        ELSE IF extraction_method = "random"
        THEN RandomLoop(ok, video, num_frames, LoopStart)
        ELSE UniformLoop(ok, video, LoopStart)

\* ------------------------------------------------------------------- C11
\* C11: uniform sampling asked for at least as many frames as the usable
\* range holds proposes every index of that range exactly once, ascending:
\* start, start + 1, ..., end - 1.
C11_UniformProposesWholeRange ==
    (pc = "sampled"
        /\ num_frames >= UsableRange(frame_count).end
                            - UsableRange(frame_count).start)
    => LET r == UsableRange(frame_count)
       IN  /\ outcome = "none"
           /\ Len(candidates) = r.end - r.start
           /\ \A i \in 1 .. Len(candidates) : candidates[i] = r.start + i - 1

\* C11 witness: the target equals the size of a usable range that does not
\* start at frame 0, and every index of it was proposed.
C11_Witness ==
    /\ pc = "sampled"
    /\ UsableRange(frame_count).start > 0
    /\ num_frames = UsableRange(frame_count).end
                       - UsableRange(frame_count).start
    /\ Len(candidates) = num_frames
    /\ num_frames >= 2

\* ------------------------------------------------------------------- C12
\* C12: every strategy takes its candidates from the usable range, falling
\* back to all frames when that range is empty, so a video with at least
\* one frame always yields a candidate.
C12_CandidatesFromUsableRangeOrAll ==
    (Selected /\ frame_count >= 1 /\ num_frames >= 1)
    => /\ candidates # <<>>
       /\ \A i \in 1 .. Len(candidates) :
             candidates[i] \in ClaimedRange(frame_count)

\* ------------------------------------------------------------------- C13
\* C13 as stated: whatever the strategy, the accepted frames come back in
\* non-decreasing frame-index order.
C13_AllStrategiesAscending ==
    (Selected /\ outcome = "returned") => NonDecreasing(frames)

\* C13 amended: the uniform and key-moment strategies (and the uniform
\* fallback of an unknown name) return the accepted frames in
\* non-decreasing frame-index order; the random strategy returns them in
\* the order the indices were drawn.
C13_AscendingExceptRandom ==
    (Selected /\ outcome = "returned")
    => IF extraction_method = "random"
       THEN InOrderOf(frames, candidates)
       ELSE NonDecreasing(frames)

\* C13 witness: the key-moment strategy returned two frames whose order of
\* score is the reverse of their order in time.
C13_Witness ==
    /\ Selected
    /\ outcome = "returned"
    /\ extraction_method = "key_moments"
    /\ Len(frames) >= 2
    /\ Len(video) >= 3
    /\ DiffScore(FrameAt(video, frames[2]), FrameAt(video, frames[2] - 1))
         > DiffScore(FrameAt(video, frames[1]), FrameAt(video, frames[1] - 1))

\* ------------------------------------------------------------------- C14
\* C14: the quality gate accepts a frame exactly when its brightness is at
\* least min_brightness, its contrast at least min_contrast and its
\* sharpness at least 100; one failed test rejects it.
C14_GateIsConjunctionOfThreeTests ==
    (pc = "gated" /\ gate_frame[1].kind = "image")
    => /\ gate_verdict \in {"accepted", "rejected"}
       /\ gate_verdict = "accepted"
            <=> /\ gate_frame[1].brightness >= gate_config.min_brightness
                /\ gate_frame[1].contrast >= gate_config.min_contrast
                /\ gate_frame[1].sharpness >= SharpnessThreshold

\* C14 witness: a frame bright and contrasted enough, one short of the
\* sharpness threshold, was rejected.
C14_Witness ==
    /\ pc = "gated"
    /\ gate_frame[1].kind = "image"
    /\ gate_config.min_brightness = DefaultMinBrightness
    /\ gate_frame[1].brightness > gate_config.min_brightness
    /\ gate_frame[1].contrast > gate_config.min_contrast
    /\ gate_frame[1].sharpness = SharpnessThreshold - 1
    /\ gate_verdict = "rejected"

\* ------------------------------------------------------------------- C15
\* C15: the quality gate never raises; an empty frame handed to it by the
\* uniform or random loop is rejected and the run goes on.
C15_GateNeverRaises ==
    (Selected /\ extraction_method # "key_moments")
    => outcome # "cv2.error"

\* ------------------------------------------------------------------- C16
\* C16: with an unrecognized strategy name, selection records a warning and
\* reads, returns and ends exactly as the uniform strategy does for the
\* same video and count.
C16_UnknownMethodIsUniform ==
    (Selected /\ extraction_method \notin KnownMethods)
    => LET u == _extract_uniform_frames(video, num_frames, frame_count)
       IN  /\ warned
           /\ reads = u.reads
           /\ frames = (IF u.error = "none" THEN u.frames ELSE <<>>)
           /\ outcome = OutcomeOf(u)

\* C16 witness: an unknown name, a warning, and two frames returned.
C16_Witness ==
    /\ Selected
    /\ extraction_method \notin KnownMethods
    /\ warned
    /\ outcome = "returned"
    /\ Len(frames) >= 2

\* ------------------------------------------------------------------- C17
\* C17: when extraction ends normally with no accepted frame,
\* generate_thumbnails raises ValueError "No suitable frames" and writes
\* nothing; every list it returns is non-empty.
C17_EmptySelectionRaises ==
    Selected
    => /\ (frames = <<>> /\ outcome \notin {"cv2.error", "ZeroDivisionError",
                                           "ValueError: sample is negative"})
          => (outcome = "ValueError: no suitable frames"
              /\ thumbnail_paths = <<>>)
       /\ outcome = "returned"
          => (thumbnail_paths # <<>> /\ Len(thumbnail_paths) = Len(frames))

\* C17 witness: candidates were decoded, none passed the gate, and the
\* call ended with the ValueError.
C17_Witness ==
    /\ Selected
    /\ reads # <<>>
    /\ frames = <<>>
    /\ outcome = "ValueError: no suitable frames"
    /\ thumbnail_paths = <<>>

\* ------------------------------------------------------------------- C18
\* C18: a request for zero or fewer thumbnails is rejected before any
\* candidate is proposed or decoded; the count is not replaced by another
\* and the call does not end as an empty result.
C18_NonPositiveCountRejected ==
    (Selected /\ num_thumbnails # <<>> /\ num_thumbnails[1] <= 0)
    => /\ num_frames = num_thumbnails[1]
       /\ candidates = <<>>
       /\ reads = <<>>
       /\ outcome \notin {"returned", "ValueError: no suitable frames"}

\* ------------------------------------------------------------------- C19
\* C19: after edit_video the caller's remove intervals hold the start and
\* end values they held before the call.
C19_CallerSegmentsUntouched ==
    Edited => segments_to_remove = given

\* ------------------------------------------------------------------- C20
\* C20: a candidate that fails to decode is skipped and nothing else
\* changes: no exception comes of it, the later candidates are read as
\* they would be without it, and the frames returned are those the
\* strategy accepts among the candidates that decoded.
C20_FailedReadIsSkipped ==
    (Selected /\ outcome # "ValueError: sample is negative")
    => LET clean == RunWithoutFailedReads
       IN  /\ ReadableOnly(reads) = clean.reads
           /\ frames = (IF clean.error = "none" THEN clean.frames ELSE <<>>)
           /\ outcome = OutcomeOf(clean)

\* C20 witness: a candidate failed to decode and a later candidate was
\* decoded, accepted and returned.
C20_Witness ==
    /\ Selected
    /\ outcome = "returned"
    /\ \E a \in 1 .. Len(candidates) : \E b \in 1 .. Len(candidates) :
          /\ a < b
          /\ ~Readable(video, candidates[a])
          /\ \E k \in 1 .. Len(reads) : reads[k] = candidates[a]
          /\ \E k \in 1 .. Len(frames) : frames[k] = candidates[b]


\* ------------------------------------------------------------------- C21
\* _extract_key_moment_frames ran to its return statement.
Ranked == pc = "extracted" /\ outcome = "returned"

\* C21: on the video whose brightness changes once, at frame JumpFrame,
\* the ranking is led by the first probe at or after the jump; no probe is
\* nearer to the jump and its score is strictly greater than every other.
C21_JumpProbeRanksFirst ==
    Ranked
    => LET ranking == key_moment.frame_diffs
       IN  /\ ranking # <<>>
           /\ ranking[1].idx >= JumpFrame
           /\ \A c \in 1 .. Len(candidates) :
                 Abs(candidates[c] - JumpFrame)
                    >= ranking[1].idx - JumpFrame
           /\ \A k \in 2 .. Len(ranking) :
                 ranking[1].score > ranking[k].score

\* C21 witness: the 450 probes of the video were scored and the probe of
\* the jump frame leads the ranking.
C21_Witness ==
    /\ Ranked
    /\ Len(candidates) > 400
    /\ Len(key_moment.frame_diffs) = Len(candidates) - 1
    /\ key_moment.frame_diffs[1].idx = JumpFrame

\* ------------------------------------------------------------------- C22
\* C22: in the pass of _merge_short_segments the k-th interval is merged
\* into the last accumulated interval exactly when both are shorter than
\* min_duration; otherwise it is appended as it is.
C22_MergedIffBothShort ==
    pc = "merged"
    => \A k \in 1 .. Len(complement_keep) :
          LET acc  == _merge_short_segments(
                          SubSeq(complement_keep, 1, k - 1),
                          min_segment_duration)
              next == IF k = Len(complement_keep) THEN segments_to_keep
                      ELSE _merge_short_segments(
                               SubSeq(complement_keep, 1, k),
                               min_segment_duration)
              seg  == complement_keep[k]
          IN  IF k = 1 THEN next = <<seg>>
              ELSE IF /\ Duration(seg) < min_segment_duration
                      /\ Duration(Last(acc)) < min_segment_duration
              THEN next = SubSeq(acc, 1, Len(acc) - 1)
                            \o <<Seg(Last(acc).start_time, seg.end_time)>>
              ELSE next = Append(acc, seg)

\* C22 witness: two short intervals were merged into a long one and the
\* short interval after it was appended as it is.
C22_Witness ==
    /\ pc = "merged"
    /\ Len(complement_keep) = 3
    /\ \A k \in 1 .. 3 : Duration(complement_keep[k]) < min_segment_duration
    /\ Len(segments_to_keep) = 2
    /\ Duration(segments_to_keep[1]) >= min_segment_duration
    /\ segments_to_keep[2] = complement_keep[3]

\* ------------------------------------------------------------------- C28
\* A keep set: intervals of positive length, sorted, none overlapping.
ValidKeep(segs) ==
    /\ \A i \in DOMAIN segs : segs[i].start_time < segs[i].end_time
    /\ NonOverlapping(segs)

Contains(outer, inner) ==
    outer.start_time <= inner.start_time /\ inner.end_time <= outer.end_time

CoversAll(rem, D) ==
    /\ rem # <<>>
    /\ rem[1].start_time = 0
    /\ \A i \in 1 .. (Len(rem) - 1) : rem[i + 1].start_time = rem[i].end_time
    /\ Last(rem).end_time = D

\* C29: for a sorted, non-overlapping remove set inside [0, D] the keep
\* list is empty exactly when the remove intervals cover all of [0, D].
C29_EmptyKeepIffCovered ==
    (/\ pc = "complemented"
     /\ NonOverlapping(sorted_segments)
     /\ \A i \in DOMAIN sorted_segments : Within(sorted_segments[i],
                                                 video_duration))
    => (complement_keep = <<>>
          <=> CoversAll(sorted_segments, video_duration))

\* C29 witness: two remove intervals cover the video and nothing is kept.
C29_Witness ==
    /\ pc = "complemented"
    /\ Len(sorted_segments) = 2
    /\ CoversAll(sorted_segments, video_duration)
    /\ complement_keep = <<>>


\* ------------------------------------------------------------------- C23
\* C23: for a video of at least one frame the key-moment strategy visits
\* at most 500 probe points.
C23_AtMost500Probes ==
    (pc = "probes_proposed" /\ frame_count >= 1)
    => Len(candidates) <= MaxProbes


\* ------------------------------------------------------------------- C24
\* Uniform sampling was asked for n frames, 1 <= n < usable count.
SpacedCase ==
    /\ pc = "sampled"
    /\ num_frames >= 1
    /\ num_frames < UsableRange(frame_count).end
                      - UsableRange(frame_count).start

\* start + floor(i * usable / n) for the i-th candidate, counted from 0.
ExactSpaced(i) ==
    LET r == UsableRange(frame_count)
    IN  r.start + (i * (r.end - r.start)) \div num_frames

StrictlyIncreasing(seq) ==
    \A i \in 1 .. (Len(seq) - 1) : seq[i] < seq[i + 1]

\* What holds with and without rounding: n indices, strictly increasing,
\* the first at the start of the usable range, all inside it.
SpacedShape ==
    /\ outcome = "none"
    /\ Len(candidates) = num_frames
    /\ StrictlyIncreasing(candidates)
    /\ candidates[1] = UsableRange(frame_count).start
    /\ \A i \in 1 .. Len(candidates) :
          /\ UsableRange(frame_count).start <= candidates[i]
          /\ candidates[i] < UsableRange(frame_count).end

\* C24 as stated: the i-th index is exactly start + floor(i * usable / n).
C24_ExactFloorSpacing ==
    SpacedCase
    => /\ SpacedShape
       /\ \A i \in 1 .. Len(candidates) : candidates[i] = ExactSpaced(i - 1)

\* C24 amended: the i-th index is int(start + i * step) with the float
\* step = usable / n, which is start + floor(i * usable / n) or, where the
\* float product falls short of an integer, one less; the indices are
\* strictly increasing, begin at start and stay inside the usable range.
C24_FloatSpacing ==
    SpacedCase
    => /\ SpacedShape
       /\ \A i \in 1 .. Len(candidates) :
             \/ candidates[i] = ExactSpaced(i - 1)
             \/ candidates[i] = ExactSpaced(i - 1) - 1

\* C24 witness: 22 indices out of a usable range of 30, one of them one
\* below the exact quotient.
C24_Witness ==
    /\ SpacedCase
    /\ SpacedShape
    /\ \E i \in 1 .. Len(candidates) : candidates[i] = ExactSpaced(i - 1) - 1


\* ------------------------------------------------------------------- C25
Distinct(seq) ==
    \A i \in 1 .. Len(seq) : \A j \in 1 .. Len(seq) :
        i # j => seq[i] # seq[j]

\* C25: the random strategy draws min(3 * num_frames, usable) distinct
\* indices of the usable range, reads them in the order drawn and stops at
\* the num_frames-th accepted frame: nothing after it is read and the
\* result holds at most num_frames frames.
C25_RandomStopsAtTarget ==
    (/\ Selected
     /\ extraction_method = "random"
     /\ outcome # "ValueError: sample is negative")
    => LET r == UsableRange(frame_count)
       IN  /\ Len(candidates) = Min(3 * num_frames, r.end - r.start)
           /\ Distinct(candidates)
           /\ \A i \in 1 .. Len(candidates) :
                 r.start <= candidates[i] /\ candidates[i] < r.end
           /\ Len(reads) <= Len(candidates)
           /\ reads = SubSeq(candidates, 1, Len(reads))
           /\ Len(frames) <= num_frames
           /\ (outcome # "cv2.error" /\ Len(frames) = num_frames)
                 => (reads # <<>> /\ Last(reads) = Last(frames))
           /\ (outcome # "cv2.error" /\ Len(frames) < num_frames)
                 => reads = candidates

\* C25 witness: three indices were drawn for one frame and the loop
\* stopped at the accepted frame with a drawn index still unread.
C25_Witness ==
    /\ Selected
    /\ extraction_method = "random"
    /\ num_frames = 1
    /\ Len(candidates) = 3
    /\ Len(frames) = 1
    /\ Len(reads) < Len(candidates)
    /\ Last(reads) = frames[1]


\* ------------------------------------------------------------------- C26
\* C26: frame_diffs after its sort holds the scored probes by score
\* descending, probes of equal score by frame index ascending, and the cut
\* keeps the first min(2 * num_frames, scored) of that order, so of tied
\* probes at the cut the lower-indexed are kept.
C26_StableRankingAndCut ==
    (Ranked /\ num_frames >= 1)
    => LET ranking == key_moment.frame_diffs
           kept    == key_moment.cut
       IN  /\ Len(ranking) = Len(key_moment.scored)
           /\ \A k \in 1 .. Len(key_moment.scored) :
                 \E p \in 1 .. Len(ranking) : ranking[p] = key_moment.scored[k]
           /\ \A p \in 1 .. Len(ranking) : \A q \in 1 .. Len(ranking) :
                 p < q => \/ ranking[p].score > ranking[q].score
                          \/ /\ ranking[p].score = ranking[q].score
                             /\ ranking[p].idx < ranking[q].idx
           /\ Len(kept) = Min(2 * num_frames, Len(ranking))
           /\ kept = SubSeq(ranking, 1, Len(kept))

\* C26 witness: the cut fell between two probes of equal score and kept
\* the one with the lower frame index.
C26_Witness ==
    /\ Ranked
    /\ num_frames >= 1
    /\ Len(key_moment.cut) = 2 * num_frames
    /\ Len(key_moment.frame_diffs) > 2 * num_frames
    /\ key_moment.frame_diffs[2 * num_frames].score
         = key_moment.frame_diffs[2 * num_frames + 1].score
    /\ key_moment.frame_diffs[2 * num_frames].idx
         < key_moment.frame_diffs[2 * num_frames + 1].idx

\* ------------------------------------------------------------------- C27
\* The entry of the cut with exactly k entries of lower frame index.
CutByIndex(k) ==
    LET kept == key_moment.cut
    IN  kept[CHOOSE p \in 1 .. Len(kept) :
                Cardinality({q \in 1 .. Len(kept) :
                                kept[q].idx < kept[p].idx}) = k]

\* What holds with and without rounding: top_frames comes from the cut,
\* the top min(2 * num_frames, scored) by score; frame indices strictly
\* ascending; num_frames entries when the cut has more, else the whole cut.
SelectionShape ==
    LET kept == key_moment.cut
        top  == key_moment.top_frames
    IN  /\ Len(kept) = Min(2 * num_frames, Len(key_moment.frame_diffs))
        /\ kept = SubSeq(key_moment.frame_diffs, 1, Len(kept))
        /\ \A i \in 1 .. Len(top) : \E p \in 1 .. Len(kept) : kept[p] = top[i]
        /\ \A i \in 1 .. (Len(top) - 1) : top[i].idx < top[i + 1].idx
        /\ Len(top) = (IF Len(kept) > num_frames THEN num_frames
                       ELSE Len(kept))

\* C27 as stated: when the cut has more than num_frames entries, the i-th
\* entry handed to the quality filter is the one at position
\* floor(i * len / num_frames) of the cut in frame-index order.
C27_ExactRankPositions ==
    (Ranked /\ num_frames >= 1)
    => /\ SelectionShape
       /\ Len(key_moment.cut) > num_frames
            => \A i \in 1 .. num_frames :
                  key_moment.top_frames[i] =
                     CutByIndex(((i - 1) * Len(key_moment.cut))
                                   \div num_frames)

\* C27 amended: the position is int(i * step) with the float step
\* len / num_frames, which is floor(i * len / num_frames) or, where the
\* float product falls short of an integer, one less.
C27_FloatRankPositions ==
    (Ranked /\ num_frames >= 1)
    => /\ SelectionShape
       /\ Len(key_moment.cut) > num_frames
            => \A i \in 1 .. num_frames :
                  LET exact == ((i - 1) * Len(key_moment.cut))
                                  \div num_frames
                  IN  \/ key_moment.top_frames[i] = CutByIndex(exact)
                      \/ /\ exact >= 1
                         /\ key_moment.top_frames[i] = CutByIndex(exact - 1)

\* C27 witness: 22 entries picked out of a cut of 30 scored probes.
C27_Witness ==
    /\ Ranked
    /\ num_frames = 22
    /\ Len(key_moment.cut) = 30
    /\ Len(key_moment.top_frames) = 22
    /\ key_moment.top_frames[12] = CutByIndex(14)

\* ------------------------------------------------------------------- C30
\* The probes that were decoded, in probe order.
Decoded == SelectSeq(reads, LAMBDA idx : Readable(video, idx))

\* C30: every probe is read; the first decoded probe is not scored and is
\* no candidate; the k-th scored probe is the (k+1)-th decoded probe,
\* scored against the k-th decoded probe; one probe fewer is scored than
\* decoded.
C30_ScoredAgainstLastDecoded ==
    Ranked
    => /\ reads = candidates
       /\ Len(key_moment.scored) = Max(Len(Decoded) - 1, 0)
       /\ \A k \in 1 .. Len(key_moment.scored) :
             /\ key_moment.scored[k].idx = Decoded[k + 1]
             /\ key_moment.scored[k].score =
                   Abs(FrameAt(video, Decoded[k + 1]).brightness
                         - FrameAt(video, Decoded[k]).brightness)
       /\ \A k \in 1 .. Len(key_moment.top_frames) :
             Decoded # <<>> => key_moment.top_frames[k].idx # Decoded[1]
       /\ \A k \in 1 .. Len(frames) :
             Decoded # <<>> => frames[k] # Decoded[1]

\* C30 witness: the probe after a failed read was scored against the probe
\* before it, and the two differ.
C30_Witness ==
    /\ Ranked
    /\ Len(reads) >= 3
    /\ Readable(video, reads[1])
    /\ ~Readable(video, reads[2])
    /\ Readable(video, reads[3])
    /\ key_moment.scored # <<>>
    /\ key_moment.scored[1].idx = reads[3]
    /\ key_moment.scored[1].score > 0

====
